---- MODULE Spec2Model ----
(***************************************************************************)
(* A model of the datacontract-mcp federation layer: the asset identifier  *)
(* text form, the asset source registry, the remote metadata cache and the *)
(* federated query engine.  Strings are sequences of one-character         *)
(* strings, so that split / replace / concatenation act as in the source.  *)
(* Python's None and the empty string are both written <<>>: every place   *)
(* of the source that reads the optional fields modelled here tests them   *)
(* for truthiness only.                                                    *)
(***************************************************************************)
EXTENDS Integers, Sequences, FiniteSets, TLC

VARIABLES
    idInput, idResult, idText, idPc,
    sources, call_query, phase, futures, collected, source_results, registered,
    outcome, calls, executed, fetched, prev,
    plugin_registry, instances, plugins_discovered, env, regResult,
    now, cache, cache_expiry, remote, api_calls, loadResult,
    mgrCall, mgrResult,
    ds_registry, ds_instances, ds_discovered, ds_created, duckdb, dsResult,
    getters, duckdb_connections, last_used_time

identVars == <<idInput, idResult, idText, idPc>>

fedVars == <<sources, call_query, phase, futures, collected, source_results, registered,
             outcome, calls, executed, fetched, prev>>

regVars == <<plugin_registry, instances, plugins_discovered, env, regResult>>

cacheVars == <<now, cache, cache_expiry, remote, api_calls, loadResult>>

mgrVars == <<mgrCall, mgrResult>>

dsVars == <<ds_registry, ds_instances, ds_discovered, ds_created, duckdb, dsResult,
            getters, duckdb_connections, last_used_time>>

vars == <<identVars, fedVars, regVars, cacheVars, mgrVars, dsVars>>

(***************************************************************************)
(* Strings                                                                 *)
(***************************************************************************)
Colon == ":"
Slash == "/"
Underscore == "_"

W_local == <<"l","o","c","a","l">>
W_datameshmanager == <<"d","a","t","a","m","e","s","h","m","a","n","a","g","e","r">>
W_product == <<"p","r","o","d","u","c","t">>
W_contract == <<"c","o","n","t","r","a","c","t">>

Contains(s, c) == \E i \in 1..Len(s) : s[i] = c

\* index of the first occurrence of c in s, 0 when there is none
IndexOf(s, c) ==
    IF Contains(s, c)
    THEN CHOOSE i \in 1..Len(s) : s[i] = c /\ \A j \in 1..(i-1) : s[j] # c
    ELSE 0

\* index of the last occurrence of c in s, 0 when there is none
LastIndexOf(s, c) ==
    IF Contains(s, c)
    THEN CHOOSE i \in 1..Len(s) : s[i] = c /\ \A j \in (i+1)..Len(s) : s[j] # c
    ELSE 0

\* str.split(c, 1) for a string that contains c
SplitFirst(s, c) ==
    LET i == IndexOf(s, c)
    IN  <<SubSeq(s, 1, i-1), SubSeq(s, i+1, Len(s))>>

\* str.rsplit(c, 1) for a string that contains c
SplitLast(s, c) ==
    LET i == LastIndexOf(s, c)
    IN  <<SubSeq(s, 1, i-1), SubSeq(s, i+1, Len(s))>>

\* str.replace(c, d) for one-character c and d
Replace(s, c, d) == [i \in 1..Len(s) |-> IF s[i] = c THEN d ELSE s[i]]

(***************************************************************************)
(* Asset identifiers                                                       *)
(***************************************************************************)
MaxIdLen == 2

IdChars == {"a", "A", " ", Colon, Slash}

IdStrs == UNION {[1..n -> IdChars] : n \in 0..MaxIdLen}

\* AssetIdentifier.registry after the module is imported
IdentifierRegistry ==
    [n \in {W_local, W_datameshmanager} |->
        IF n = W_local THEN "LocalAssetIdentifier"
                       ELSE "DataMeshManagerAssetIdentifier"]

\* the source property of the identifier classes
ClassSource(cls) ==
    IF cls = "LocalAssetIdentifier" THEN W_local ELSE W_datameshmanager

IdError(msg) ==
    [kind |-> "ValueError", cls |-> "", asset_type |-> <<>>, asset_id |-> <<>>,
     msg |-> msg]

\* a variant of __init__ without the check of the asset type
NewIdentifier_unchecked(cls, asset_type, asset_id) ==
    [kind |-> "ok", cls |-> cls, asset_type |-> asset_type,
     asset_id |-> asset_id, msg |-> ""]

\* AssetIdentifier.__init__ reached through from_parts
NewIdentifier(cls, asset_type, asset_id) ==
    IF asset_type \notin {W_product, W_contract}
    THEN IdError("Invalid asset type")
    ELSE [kind |-> "ok", cls |-> cls, asset_type |-> asset_type,
          asset_id |-> asset_id, msg |-> ""]

\* a variant that splits the type from the id at the last '/'
FromString_rsplit(s) ==
    IF ~Contains(s, Colon) THEN IdError("Invalid identifier format")
    ELSE LET source == SplitFirst(s, Colon)[1]
             rest   == SplitFirst(s, Colon)[2]
         IN  IF ~Contains(rest, Slash) THEN IdError("Invalid identifier format")
             ELSE LET asset_type == SplitLast(rest, Slash)[1]
                      asset_id   == SplitLast(rest, Slash)[2]
                  IN  IF source = <<>> THEN IdError("Missing source in identifier")
                      ELSE IF asset_type = <<>> THEN IdError("Missing asset type in identifier")
                      ELSE IF asset_id = <<>> THEN IdError("Missing asset ID in identifier")
                      ELSE IF source \notin DOMAIN IdentifierRegistry
                           THEN IdError("Unknown asset source")
                      ELSE NewIdentifier(IdentifierRegistry[source], asset_type, asset_id)

\* AssetIdentifier.from_string
FromString(s) ==
    IF ~Contains(s, Colon) THEN IdError("Invalid identifier format")
    ELSE LET source == SplitFirst(s, Colon)[1]
             rest   == SplitFirst(s, Colon)[2]
         IN  IF ~Contains(rest, Slash) THEN IdError("Invalid identifier format")
             ELSE LET asset_type == SplitFirst(rest, Slash)[1]
                      asset_id   == SplitFirst(rest, Slash)[2]
                  IN  IF source = <<>> THEN IdError("Missing source in identifier")
                      ELSE IF asset_type = <<>> THEN IdError("Missing asset type in identifier")
                      ELSE IF asset_id = <<>> THEN IdError("Missing asset ID in identifier")
                      ELSE IF source \notin DOMAIN IdentifierRegistry
                           THEN IdError("Unknown asset source")
                      ELSE NewIdentifier(IdentifierRegistry[source], asset_type, asset_id)

\* AssetIdentifier.__str__
ToStr(ident) ==
    ClassSource(ident.cls) \o <<Colon>> \o ident.asset_type \o <<Slash>> \o ident.asset_id

is_product(ident) == ident.asset_type = W_product

is_contract(ident) == ident.asset_type = W_contract

(***************************************************************************)
(* The assets and data files the operations read.  The local asset source  *)
(* serves them; they do not change while a call runs.                      *)
(***************************************************************************)
W_source_data == <<"s","o","u","r","c","e","_","d","a","t","a">>
W_orders == <<"o","r","d","e","r","s">>
W_urn_datacontract == <<"u","r","n",":","d","a","t","a","c","o","n","t","r","a","c","t",":">>

NoServer == [key |-> <<>>, type |-> <<>>, path |-> <<>>, location |-> <<>>]

Port(id, dataContractId, server) ==
    [id |-> id, dataContractId |-> dataContractId, server |-> server,
     type |-> <<>>, location |-> <<>>]

\* an output port without a server block that carries type and location
DirectPort(id, type, location) ==
    [Port(id, <<>>, NoServer) EXCEPT !.type = type, !.location = location]

\* the documents of the assets directory, by file name, in directory order
AssetFiles ==
    << [file |-> <<"a">>, asset_type |-> W_product, id |-> <<"a">>,
        outputPorts |-> << Port(<<"b">>, <<"c","1">>, NoServer),
                           Port(W_source_data, <<>>,
                                [key |-> <<>>, type |-> W_local, path |-> <<"d","2">>, location |-> <<>>]) >>,
        servers |-> <<>>, models |-> <<>>],
       [file |-> <<"a","_","b">>, asset_type |-> W_product, id |-> <<"a","_","b">>,
        outputPorts |-> << Port(<<"q">>, <<"c","2">>, NoServer) >>,
        servers |-> <<>>, models |-> <<>>],
       [file |-> <<"e">>, asset_type |-> W_product, id |-> <<"e">>,
        outputPorts |-> << Port(<<"p">>, <<"c","3">>, NoServer) >>,
        servers |-> <<>>, models |-> <<>>],
       [file |-> <<"g">>, asset_type |-> W_product, id |-> <<"g">>,
        outputPorts |-> << Port(<<"n">>, <<>>, NoServer),
                           DirectPort(<<"r">>, W_local, <<"d","1">>),
                           Port(<<"u">>, W_urn_datacontract \o <<"s",":","c","1">>,
                                NoServer) >>,
        servers |-> <<>>, models |-> <<>>],
       [file |-> <<"k","1">>, asset_type |-> W_contract, id |-> <<"c","1">>,
        outputPorts |-> <<>>,
        servers |-> << [key |-> <<"s","1">>, type |-> W_local, path |-> <<"d","1">>, location |-> <<>>] >>,
        models |-> << W_source_data, W_orders >>],
       [file |-> <<"k","2">>, asset_type |-> W_contract, id |-> <<"c","2">>,
        outputPorts |-> <<>>,
        servers |-> << [key |-> <<"s","1">>, type |-> <<"L","o","c","a","l">>, path |-> <<"d","2">>, location |-> <<>>] >>,
        models |-> << W_source_data >>],
       [file |-> <<"k","3">>, asset_type |-> W_contract, id |-> <<"c","3">>,
        outputPorts |-> <<>>,
        servers |-> << [key |-> <<"s","1">>, type |-> W_local, path |-> <<"d","3">>, location |-> <<>>] >>,
        models |-> << W_source_data >>],
       [file |-> <<"k","4">>, asset_type |-> W_contract,
        id |-> W_urn_datacontract \o <<"s",":","c","1">>,
        outputPorts |-> <<>>,
        servers |-> << [key |-> <<"s","1">>, type |-> W_local, path |-> <<"d","2">>,
                        location |-> <<>>] >>,
        models |-> << W_source_data >>] >>

\* the rows of the data files, by path; d3 is a file without rows
DataFiles ==
    (<<"d","1">> :> <<1, 2>>) @@ (<<"d","2">> :> <<3>>) @@ (<<"d","3">> :> <<>>)

Ok(records) ==
    [kind |-> "ok", records |-> records, cls |-> "", msg |-> "", subject |-> <<>>,
     via |-> ""]

Err(cls, msg, subject) ==
    [kind |-> "err", records |-> <<>>, cls |-> cls, msg |-> msg, subject |-> subject,
     via |-> ""]

NoCalls == [single |-> 0, parallel |-> 0]

\* the engine between calls: it owns no state of its own
FedIdle ==
    /\ sources = <<>>
    /\ call_query = [text |-> "", tables |-> {}]
    /\ phase = "idle"
    /\ futures = <<>>
    /\ collected = <<>>
    /\ source_results = <<>>
    /\ registered = <<>>
    /\ outcome = Ok(<<>>)
    /\ calls = NoCalls
    /\ executed = <<>>
    /\ fetched = {}
    /\ prev = <<>>

\* the asset source registry before any plugin module is imported
W_custom == <<"c","u","s","t","o","m">>

SourceNames == {W_local, W_datameshmanager, W_custom}

NoInstance == [cls |-> "None"]

NoRegResult ==
    [op |-> "none", name |-> <<>>, cls |-> "None", value |-> NoInstance,
     asset_type |-> <<>>, bad |-> {}, queried |-> <<>>, kind |-> "ok", assets |-> <<>>]

RegIdle ==
    /\ plugin_registry = <<>>
    /\ instances = [n \in SourceNames |-> NoInstance]
    /\ plugins_discovered = FALSE
    /\ env = {}
    /\ regResult = NoRegResult

\* the class-level cache of DataMeshManagerSource when the class is loaded
CacheKeys == {"datameshmanager:product/m", "datameshmanager:contract/n"}

NoDoc == [rev |-> 0, prefixed |-> FALSE]

NoExpiry == -1

NoLoadResult ==
    [op |-> "none", key |-> "", at |-> 0, had |-> FALSE, expiresAt |-> NoExpiry,
     hit |-> FALSE, kind |-> "ok", value |-> NoDoc, calls_before |-> 0,
     remote_rev |-> 0]

CacheIdle ==
    /\ now = 0
    /\ cache = [k \in CacheKeys |-> NoDoc]
    /\ cache_expiry = [k \in CacheKeys |-> NoExpiry]
    /\ remote = [k \in CacheKeys |-> 1]
    /\ api_calls = 0
    /\ loadResult = NoLoadResult

\* the manager between calls: no call made, nothing returned
MgrIdle ==
    /\ mgrCall = [op |-> "none", text |-> <<>>, port_id |-> <<>>, model_key |-> <<>>,
                  query |-> ""]
    /\ mgrResult = Ok(<<>>)

\* the server types callers pass: the registered ones, an unregistered one and
\* an upper-case spelling
DsTypes == {"local", "file", "s3", "bigquery", "LOCAL"}

NoDsInstance == [cls |-> "None", id |-> 0]

NoDsResult ==
    [op |-> "none", server_type |-> "", kind |-> "none", inst |-> NoDsInstance,
     msg |-> "", named |-> "", listed |-> <<>>, via |-> "", was_registered |-> FALSE,
     was_available |-> FALSE]

\* DataSourcePlugin._registry and DataSourceRegistry._instances before any import
DsIdle ==
    /\ ds_registry = <<>>
    /\ ds_instances = [t \in DsTypes |-> NoDsInstance]
    /\ ds_discovered = FALSE
    /\ ds_created = 0
    /\ duckdb = TRUE
    /\ dsResult = NoDsResult
    /\ getters = <<>>
    /\ duckdb_connections = {}
    /\ last_used_time = <<>>

\* the texts handed to from_string: well-formed ones and every malformed shape
SourceWords == {<<>>, W_local, W_datameshmanager, <<"L","o","c","a","l">>, <<"s","3">>}

TypeWords == {<<>>, W_product, W_contract, <<"P","r","o","d","u","c","t">>, <<"t","a","b","l","e">>}

IdentInputs ==
    {src \o sep1 \o typ \o sep2 \o id :
        src \in SourceWords, sep1 \in {<<>>, <<Colon>>}, typ \in TypeWords,
        sep2 \in {<<>>, <<Slash>>}, id \in IdStrs}

IdentIdle ==
    /\ idInput = <<>>
    /\ idResult = IdError("")
    /\ idText = <<>>
    /\ idPc = "new"

IdentInit ==
    /\ idInput \in IdentInputs
    /\ idResult = IdError("")
    /\ idText = <<>>
    /\ idPc = "new"
    /\ FedIdle
    /\ RegIdle
    /\ CacheIdle
    /\ MgrIdle
    /\ DsIdle

Parse ==
    /\ idPc = "new"
    /\ idResult' = FromString(idInput)
    /\ idPc' = "parsed"
    /\ UNCHANGED <<idInput, idText, fedVars, regVars, cacheVars, mgrVars, dsVars>>

Format ==
    /\ idPc = "parsed"
    /\ idResult.kind = "ok"
    /\ idText' = ToStr(idResult)
    /\ idPc' = "formatted"
    /\ UNCHANGED <<idInput, idResult, fedVars, regVars, cacheVars, mgrVars, dsVars>>

IdentNext == Parse \/ Format

SpecIdent == IdentInit /\ [][IdentNext]_vars

\* source:type/id with a registered source, a known type and a non-empty id
ValidIdentText(s) ==
    \E src \in DOMAIN IdentifierRegistry, typ \in {W_product, W_contract},
       id \in IdStrs \ {<<>>} :
        s = src \o <<Colon>> \o typ \o <<Slash>> \o id

\* C10: for every valid source:type/id text, from_string succeeds and
\* str(from_string(s)) is s itself, character for character.
C10_RoundTrip ==
    ValidIdentText(idInput) =>
        /\ idPc \in {"parsed", "formatted"} => idResult.kind = "ok"
        /\ idPc = "formatted" => idText = idInput

\* a text whose id holds a further ':' and '/' has been parsed and formatted
C10_Witness ==
    /\ idPc = "formatted"
    /\ ValidIdentText(idInput)
    /\ Contains(idResult.asset_id, Colon)
    /\ Contains(idResult.asset_id, Slash)

\* the malformed shapes of an identifier text: no ':', no '/' after the first
\* ':', an empty source, type or id, a type token other than contract / product
MalformedIdentText(s) ==
    \/ ~Contains(s, Colon)
    \/ /\ Contains(s, Colon)
       /\ LET source == SplitFirst(s, Colon)[1]
              rest   == SplitFirst(s, Colon)[2]
          IN  \/ ~Contains(rest, Slash)
              \/ source = <<>>
              \/ /\ Contains(rest, Slash)
                 /\ \/ SplitFirst(rest, Slash)[1] \notin {W_product, W_contract}
                    \/ SplitFirst(rest, Slash)[2] = <<>>

\* C11: from_string of a malformed text (missing ':', missing '/', empty
\* source, empty type, empty id, unknown type token) raises ValueError and
\* returns no identifier.
C11_ParseErrors ==
    (idPc # "new" /\ MalformedIdentText(idInput)) =>
        /\ idResult.kind = "ValueError"
        /\ idResult.cls = ""
        /\ idPc # "formatted"

\* a text with a registered source, an id and the type token 'table' was rejected
C11_Witness ==
    /\ idPc = "parsed"
    /\ idInput = W_local \o <<Colon>> \o <<"t","a","b","l","e">> \o <<Slash, "a">>
    /\ idResult.kind = "ValueError"

(***************************************************************************)
(* Resolution manager: query_product and what it calls                     *)
(***************************************************************************)
\* str.lower() on the letters that occur in server types
Lower(s) ==
    [i \in 1..Len(s) |->
        CASE s[i] = "L" -> "l" [] s[i] = "O" -> "o" [] s[i] = "C" -> "c"
          [] s[i] = "A" -> "a" [] s[i] = "S" -> "s" [] OTHER -> s[i]]

StartsWith(s, p) == Len(s) >= Len(p) /\ SubSeq(s, 1, Len(p)) = p

FileIndex(file) ==
    LET In(files) ==
            IF \E i \in 1..Len(files) : files[i].file = file
            THEN CHOOSE i \in 1..Len(files) : files[i].file = file
            ELSE 0
    IN  In(AssetFiles)

\* the local source's step that prefixes a bare dataContractId with local:contract/
PrefixPort(port) ==
    IF port.dataContractId # <<>> /\ ~Contains(port.dataContractId, Colon)
    THEN [port EXCEPT !.dataContractId =
            W_local \o <<Colon>> \o W_contract \o <<Slash>> \o port.dataContractId]
    ELSE port

\* DataAssetManager._load_and_parse_asset over AssetSourceRegistry.load_content
LoadAndParseAsset(ident) ==
    LET Parsed(doc) ==
            IF is_product(ident)
            THEN Ok([doc EXCEPT !.outputPorts =
                        [i \in 1..Len(doc.outputPorts) |-> PrefixPort(doc.outputPorts[i])]])
            ELSE Ok(doc)
        At(index) ==
            IF index = 0 THEN Err("AssetLoadError", "Asset file not found", ident.asset_id)
            ELSE Parsed(AssetFiles[index])
    IN  IF ident.cls # "LocalAssetIdentifier"
        THEN Err("AssetLoadError", "DataMeshManager API key not set", ident.asset_id)
        ELSE At(FileIndex(ident.asset_id))

\* AssetSourceRegistry.list_assets(type) with the local source alone configured
ListLocalAssets(asset_type) ==
    LET OfType(doc) == doc.asset_type = asset_type
        Identifiers(docs) ==
            [k \in 1..Len(docs) |->
                NewIdentifier("LocalAssetIdentifier", asset_type, docs[k].file)]
    IN  Identifiers(SelectSeq(AssetFiles, OfType))

\* DataAssetManager._find_asset_by_type_and_id: the first listed asset whose id matches
FindAssetByTypeAndId(asset_type, asset_id) ==
    LET Matches(loaded) == loaded.kind = "ok" /\ loaded.records.id = asset_id
        First(ids, hits) ==
            IF hits = {} THEN <<>>
            ELSE LET Pick(identifier) == <<identifier, LoadAndParseAsset(identifier).records>>
                 IN  Pick(ids[CHOOSE i \in hits : \A j \in hits : i <= j])
        Among(ids) ==
            First(ids, {i \in 1..Len(ids) : Matches(LoadAndParseAsset(ids[i]))})
    IN  Among(ListLocalAssets(asset_type))

\* DataAssetManager._find_contract_by_id
FindContractById(contract_id) ==
    LET Retry(simple_id, result) ==
            IF result # <<>> THEN result
            ELSE IF simple_id # contract_id
                 THEN FindAssetByTypeAndId(W_contract, contract_id)
                 ELSE <<>>
        Find(simple_id) == Retry(simple_id, FindAssetByTypeAndId(W_contract, simple_id))
    IN  Find(IF Contains(contract_id, Colon) /\ Contains(contract_id, Slash)
             THEN SplitFirst(contract_id, Slash)[2]
             ELSE IF StartsWith(contract_id, W_urn_datacontract)
                     /\ Cardinality({i \in 1..Len(contract_id) : contract_id[i] = Colon}) >= 3
             THEN SplitLast(contract_id, Colon)[2]
             ELSE contract_id)

\* a variant of _get_output_port that falls back to the first port when the
\* requested id matches none
GetOutputPort_fallback(product, port_id) ==
    LET Named(ports, hits) ==
            IF hits = {}
            THEN IF ports = <<>>
                 THEN Err("AssetQueryError", "Data product has no output ports", product.id)
                 ELSE Ok(ports[1])
            ELSE Ok(ports[CHOOSE i \in hits : \A j \in hits : i <= j])
        From(ports) ==
            IF port_id # <<>>
            THEN Named(ports, {i \in 1..Len(ports) : ports[i].id = port_id})
            ELSE IF ports = <<>>
                 THEN Err("AssetQueryError", "Data product has no output ports", product.id)
                 ELSE Ok(ports[1])
    IN  From(product.outputPorts)

\* DataAssetManager._get_output_port
GetOutputPort(product, port_id) ==
    LET Named(ports, hits) ==
            IF hits = {}
            THEN Err("AssetQueryError", "Output port not found in product", port_id)
            ELSE Ok(ports[CHOOSE i \in hits : \A j \in hits : i <= j])
        From(ports) ==
            IF port_id # <<>>
            THEN Named(ports, {i \in 1..Len(ports) : ports[i].id = port_id})
            ELSE IF ports = <<>>
                 THEN Err("AssetQueryError", "Data product has no output ports", product.id)
                 ELSE Ok(ports[1])
    IN  From(product.outputPorts)

\* what the embedded SQL engine answers: the query sees the relations it names,
\* and fails when one of them is not a table of the connection
ExecSQL(query, tables) ==
    IF query.tables \subseteq DOMAIN tables
    THEN Ok([t \in query.tables |-> tables[t]])
    ELSE Err("CatalogException", "Table does not exist", <<>>)

\* LocalDataSource.execute: a fresh connection, one table named model_key
LocalExecute(model_key, query, server_config) ==
    LET file_path == IF server_config.path # <<>> THEN server_config.path
                     ELSE server_config.location
    IN  IF file_path = <<>>
        THEN Err("ValueError", "No file path provided in server configuration", <<>>)
        ELSE IF file_path \notin DOMAIN DataFiles
        THEN Err("FileNotFoundError", "File not found", file_path)
        ELSE ExecSQL(query, model_key :> DataFiles[file_path])

\* DataSourceRegistry.execute_query with the built-in plugins discovered
DataSourceExecute(server_type, model_key, query, server_config) ==
    IF server_type \notin {W_local, <<"f","i","l","e">>}
    THEN Err("AssetQueryError", "Unsupported server type", server_type)
    ELSE LET r == LocalExecute(model_key, query, server_config)
         IN  IF r.kind = "ok" THEN [r EXCEPT !.via = "LocalDataSource"]
             ELSE [Err("AssetQueryError", "Error executing query on", server_type)
                     EXCEPT !.via = "LocalDataSource"]

FirstOr(key, keys) ==
    IF key # <<>> THEN key
    ELSE IF keys # <<>> THEN keys[1] ELSE <<>>

\* a variant of _query_from_data_contract that takes the first declared server
\* and model when the requested key is not declared
QueryFromDataContract_fallback(contract, query, server_key, model_key) ==
    LET OnServer(server, mkey) ==
            IF server.type = <<>>
            THEN Err("AssetQueryError", "Server missing 'type' field", <<>>)
            ELSE DataSourceExecute(Lower(server.type), mkey, query, server)
        Select(servers, skey, mkey, sidx) ==
            IF servers = <<>> THEN Err("AssetQueryError", "No servers defined in contract", <<>>)
            ELSE IF contract.models = <<>>
            THEN Err("AssetQueryError", "No models defined in contract", <<>>)
            ELSE OnServer(servers[IF sidx = {} THEN 1 ELSE CHOOSE i \in sidx : TRUE],
                          IF \E i \in 1..Len(contract.models) : contract.models[i] = mkey
                          THEN mkey ELSE contract.models[1])
        WithKey(servers, skey) ==
            Select(servers, skey, FirstOr(model_key, contract.models),
                   {i \in 1..Len(servers) : servers[i].key = skey})
        With(servers) ==
            WithKey(servers, FirstOr(server_key, [i \in 1..Len(servers) |-> servers[i].key]))
    IN  With(contract.servers)

\* DataAssetManager._query_from_data_contract
QueryFromDataContract(contract, query, server_key, model_key) ==
    LET OnServer(server, mkey) ==
            IF server.type = <<>>
            THEN Err("AssetQueryError", "Server missing 'type' field", <<>>)
            ELSE DataSourceExecute(Lower(server.type), mkey, query, server)
        Select(servers, skey, mkey, sidx) ==
            IF skey = <<>> THEN Err("AssetQueryError", "No servers defined in contract", <<>>)
            ELSE IF sidx = {} THEN Err("AssetQueryError", "Server not found in contract", skey)
            ELSE IF mkey = <<>> THEN Err("AssetQueryError", "No models defined in contract", <<>>)
            ELSE IF ~\E i \in 1..Len(contract.models) : contract.models[i] = mkey
                 THEN Err("AssetQueryError", "Model not found in contract", mkey)
            ELSE OnServer(servers[CHOOSE i \in sidx : TRUE], mkey)
        WithKey(servers, skey) ==
            Select(servers, skey, FirstOr(model_key, contract.models),
                   {i \in 1..Len(servers) : servers[i].key = skey})
        With(servers) ==
            WithKey(servers, FirstOr(server_key, [i \in 1..Len(servers) |-> servers[i].key]))
    IN  With(contract.servers)

\* the values of PORT_TYPE_TO_SERVER_TYPE other than local
RemoteServerTypes ==
    { <<"s","3">>, <<"b","i","g","q","u","e","r","y">>,
      <<"s","n","o","w","f","l","a","k","e">>, <<"r","e","d","s","h","i","f","t">>,
      <<"p","o","s","t","g","r","e","s">> }

\* DataAssetManager._query_from_data_product with _create_server_config_from_port
\* and _resolve_server_type
QueryFromDataProduct(port, query, model_key) ==
    LET Dispatch(server_config, port_type, server_type) ==
            IF server_type = <<>>
            THEN Err("AssetQueryError", "Unsupported server type for direct querying",
                     port_type)
            ELSE DataSourceExecute(server_type, FirstOr(model_key, <<port.id>>), query,
                    IF server_type = W_local /\ server_config.path = <<>>
                    THEN [server_config EXCEPT !.type = server_type,
                                               !.path = server_config.location]
                    ELSE [server_config EXCEPT !.type = server_type])
        Resolve(server_config, port_type) ==
            Dispatch(server_config, port_type,
                     IF port_type \in {W_local, <<"f","i","l","e">>} THEN W_local
                     ELSE IF port_type \in RemoteServerTypes THEN port_type
                     ELSE IF server_config.location # <<>> THEN W_local
                     ELSE <<>>)
        WithConfig(server_config) ==
            Resolve(server_config,
                    Lower(IF port.type # <<>> THEN port.type ELSE server_config.type))
    IN  IF port.server # NoServer THEN WithConfig(port.server)
        ELSE IF port.type # <<>> /\ port.location # <<>>
        THEN WithConfig([NoServer EXCEPT !.location = port.location])
        ELSE Err("AssetQueryError", "Output port doesn't have server information", port.id)

\* a variant of query_product that dispatches every port without a
\* dataContractId as a direct query
QueryProduct_direct(ident, query, port_id, server_key, model_key) ==
    LET ViaContract(contract_id, found) ==
            IF found = <<>>
            THEN Err("AssetQueryError", "Couldn't find data contract with ID", contract_id)
            ELSE QueryFromDataContract(found[2], query, server_key, model_key)
        OnPort(port) ==
            IF port.dataContractId # <<>>
            THEN ViaContract(port.dataContractId, FindContractById(port.dataContractId))
            ELSE QueryFromDataProduct(port, query, FirstOr(model_key, <<port.id>>))
        Selected(got) == IF got.kind # "ok" THEN got ELSE OnPort(got.records)
        Loaded(loaded) ==
            IF loaded.kind # "ok" THEN loaded
            ELSE Selected(GetOutputPort(loaded.records, port_id))
    IN  Loaded(LoadAndParseAsset(ident))

\* DataAssetManager.query_product with include_metadata left False
QueryProduct(ident, query, port_id, server_key, model_key) ==
    LET ViaContract(contract_id, found) ==
            IF found = <<>>
            THEN Err("AssetQueryError", "Couldn't find data contract with ID", contract_id)
            ELSE QueryFromDataContract(found[2], query, server_key, model_key)
        OnPort(port) ==
            IF port.dataContractId # <<>>
            THEN ViaContract(port.dataContractId, FindContractById(port.dataContractId))
            ELSE IF port.server # NoServer
            THEN QueryFromDataProduct(port, query, FirstOr(model_key, <<port.id>>))
            ELSE Err("AssetQueryError",
                     "has neither a data contract reference nor server information",
                     port.id)
        Selected(got) == IF got.kind # "ok" THEN got ELSE OnPort(got.records)
        Loaded(loaded) ==
            IF loaded.kind # "ok" THEN loaded
            ELSE Selected(GetOutputPort(loaded.records, port_id))
    IN  Loaded(LoadAndParseAsset(ident))

(***************************************************************************)
(* Federated query engine                                                  *)
(***************************************************************************)
MaxSources == 2

QuerySource(product_id, port_id, model, alias) ==
    [product_id |-> product_id, port_id |-> port_id, server |-> <<>>,
     model |-> model, alias |-> alias]

LocalProduct(id) == W_local \o <<Colon>> \o W_product \o <<Slash>> \o id

\* the sources a caller may name
SourceChoices ==
    { QuerySource(LocalProduct(<<"a">>), <<"b">>, <<>>, <<>>),
      QuerySource(LocalProduct(<<"a","_","b">>), <<>>, <<>>, <<>>),
      QuerySource(LocalProduct(<<"e">>), <<>>, <<>>, <<"t">>),
      QuerySource(LocalProduct(<<"x">>), <<>>, <<>>, <<"u">>),
      QuerySource(LocalProduct(<<"a">>), <<"b">>, W_orders, <<"u">>),
      QuerySource(LocalProduct(<<"a">>), W_source_data, <<>>, <<"t">>),
      QuerySource(W_local \o <<Colon>> \o W_contract \o <<Slash>> \o <<"k","1">>,
                  <<>>, <<>>, <<"u">>) }

\* the fixed text of every per-source fetch
SelectAll == [text |-> "SELECT * FROM source_data", tables |-> {W_source_data}]

\* the query texts a caller may send
QueryChoices ==
    { SelectAll,
      [text |-> "SELECT * FROM orders", tables |-> {W_orders}],
      [text |-> "SELECT * FROM local_product_a_b",
       tables |-> {W_local \o <<"_">> \o W_product \o <<"_","a","_","b">>}],
      [text |-> "SELECT * FROM t JOIN local_product_a_b",
       tables |-> {<<"t">>, W_local \o <<"_">> \o W_product \o <<"_","a","_","b">>}] }

\* FederatedQueryEngine._get_qualified_name
GetQualifiedName(source) ==
    LET base == Replace(Replace(source.product_id, Colon, Underscore), Slash, Underscore)
    IN  IF source.port_id # <<>> THEN base \o <<Underscore>> \o source.port_id ELSE base

\* source.alias or self._get_qualified_name(source)
TableName(source) ==
    IF source.alias # <<>> THEN source.alias ELSE GetQualifiedName(source)

\* the body shared by _execute_single_source_query and _get_source_data
QueryThroughManager(source, q) ==
    LET identifier == FromString(source.product_id)
    IN  IF identifier.kind # "ok" THEN Err("ValueError", identifier.msg, source.product_id)
        ELSE IF ~is_product(identifier)
        THEN Err("ValueError", "Source identifier must be a data product", source.product_id)
        ELSE QueryProduct(identifier, q, source.port_id, source.server, source.model)

\* a variant that sends the fixed fetch text instead of the caller's query
ExecuteSingleSourceQuery_selectall(source, q) ==
    QueryThroughManager(source, [text |-> "SELECT * FROM source_data", tables |-> {W_source_data}])

\* FederatedQueryEngine._execute_single_source_query
ExecuteSingleSourceQuery(source, q) == QueryThroughManager(source, q)

\* a variant of _get_source_data that sends the caller's query text
GetSourceData_callers(source) == QueryThroughManager(source, call_query)

\* FederatedQueryEngine._get_source_data
GetSourceData(source) == QueryThroughManager(source, SelectAll)

\* the registration loop of _execute_final_query: sources without rows are skipped
RegisterResults(results) ==
    [n \in {m \in DOMAIN results : results[m] # <<>>} |-> results[n]]

\* a variant of execute_query without the check of the source list
ExecuteQuery_unvalidated(srcs, q) ==
    /\ phase = "idle"
    /\ sources' = srcs
    /\ call_query' = q
    /\ IF Len(srcs) = 1
       THEN /\ outcome' = ExecuteSingleSourceQuery(srcs[1], q)
            /\ calls' = [calls EXCEPT !.single = @ + 1]
            /\ phase' = "done"
            /\ UNCHANGED futures
       ELSE /\ futures' = [i \in 1..Len(srcs) |-> [state |-> "running", result |-> Ok(<<>>)]]
            /\ calls' = [calls EXCEPT !.parallel = @ + 1]
            /\ phase' = "fanout"
            /\ UNCHANGED outcome
    /\ UNCHANGED <<collected, source_results, registered, executed, fetched, prev>>

\* execute_query / _execute_federated_query up to the point where workers run
ExecuteQuery(srcs, q) ==
    /\ phase = "idle"
    /\ sources' = srcs
    /\ call_query' = q
    /\ IF srcs = <<>>
       THEN /\ outcome' = Err("ValueError", "At least one source must be provided", <<>>)
            /\ phase' = "done"
            /\ UNCHANGED <<futures, calls>>
       ELSE IF Len(srcs) = 1
       THEN /\ outcome' = ExecuteSingleSourceQuery(srcs[1], q)
            /\ calls' = [calls EXCEPT !.single = @ + 1]
            /\ phase' = "done"
            /\ UNCHANGED futures
       ELSE /\ futures' = [i \in 1..Len(srcs) |-> [state |-> "running", result |-> Ok(<<>>)]]
            /\ calls' = [calls EXCEPT !.parallel = @ + 1]
            /\ phase' = "fanout"
            /\ UNCHANGED outcome
    /\ UNCHANGED <<collected, source_results, registered, executed, fetched, prev>>

\* one pool worker runs _get_source_data for its source
WorkerRun(i) ==
    /\ phase \in {"fanout", "aborting"}
    /\ futures[i].state = "running"
    /\ futures' = [futures EXCEPT ![i] = [state |-> "done", result |-> GetSourceData(sources[i])]]
    /\ fetched' = fetched \cup {<<i, SelectAll.text>>}
    /\ UNCHANGED <<sources, call_query, phase, collected, source_results, registered,
                   outcome, calls, executed, prev>>

\* a variant of the loop that logs a failed future and goes on
Collect_continue(i) ==
    /\ phase = "fanout"
    /\ futures[i].state = "done"
    /\ ~\E k \in 1..Len(collected) : collected[k] = i
    /\ collected' = Append(collected, i)
    /\ IF futures[i].result.kind = "ok"
       THEN source_results' =
                (TableName(sources[i]) :> futures[i].result.records[W_source_data])
                @@ source_results
       ELSE UNCHANGED source_results
    /\ UNCHANGED <<sources, call_query, phase, futures, registered, outcome, calls,
                   executed, fetched, prev>>

\* the as_completed loop takes one finished future
Collect(i) ==
    /\ phase = "fanout"
    /\ futures[i].state = "done"
    /\ ~\E k \in 1..Len(collected) : collected[k] = i
    /\ collected' = Append(collected, i)
    /\ IF futures[i].result.kind = "ok"
       THEN /\ source_results' =
                    (TableName(sources[i]) :> futures[i].result.records[W_source_data])
                    @@ source_results
            /\ UNCHANGED <<phase, outcome>>
       ELSE /\ outcome' = futures[i].result
            /\ phase' = "aborting"
            /\ UNCHANGED source_results
    /\ UNCHANGED <<sources, call_query, futures, registered, calls, executed, fetched, prev>>

\* a variant in which the exception leaves the with block at once
RaiseAfterShutdown_nowait ==
    /\ phase = "aborting"
    /\ phase' = "done"
    /\ UNCHANGED <<sources, call_query, futures, collected, source_results, registered,
                   outcome, calls, executed, fetched, prev>>

\* the exception leaves the with block once every worker has finished
RaiseAfterShutdown ==
    /\ phase = "aborting"
    /\ \A i \in 1..Len(futures) : futures[i].state = "done"
    /\ phase' = "done"
    /\ UNCHANGED <<sources, call_query, futures, collected, source_results, registered,
                   outcome, calls, executed, fetched, prev>>

\* a variant that runs the final query as soon as one future has been taken
ExecuteFinalQuery_early ==
    /\ phase = "fanout"
    /\ Len(collected) >= 1
    /\ registered' = RegisterResults(source_results)
    /\ outcome' = ExecSQL(call_query, RegisterResults(source_results))
    /\ executed' = Append(executed, call_query.text)
    /\ phase' = "done"
    /\ UNCHANGED <<sources, call_query, futures, collected, source_results, calls, fetched,
                   prev>>

\* _execute_final_query, after the loop has taken every future
ExecuteFinalQuery ==
    /\ phase = "fanout"
    /\ Len(collected) = Len(sources)
    /\ registered' = RegisterResults(source_results)
    /\ outcome' = ExecSQL(call_query, RegisterResults(source_results))
    /\ executed' = Append(executed, call_query.text)
    /\ phase' = "done"
    /\ UNCHANGED <<sources, call_query, futures, collected, source_results, calls, fetched,
                   prev>>

\* the caller repeats a finished multi-source call with the same arguments
Repeat ==
    /\ phase = "done"
    /\ Len(sources) > 1
    /\ prev = <<>>
    /\ prev' = <<[outcome |-> outcome, registered |-> registered]>>
    /\ futures' = [i \in 1..Len(sources) |-> [state |-> "running", result |-> Ok(<<>>)]]
    /\ collected' = <<>>
    /\ source_results' = <<>>
    /\ registered' = <<>>
    /\ outcome' = Ok(<<>>)
    /\ calls' = [NoCalls EXCEPT !.parallel = 1]
    /\ executed' = <<>>
    /\ fetched' = {}
    /\ phase' = "fanout"
    /\ UNCHANGED <<sources, call_query>>

SourceLists == UNION {[1..n -> SourceChoices] : n \in 0..MaxSources}

Init == FedIdle /\ IdentIdle /\ RegIdle /\ CacheIdle /\ MgrIdle /\ DsIdle

Next ==
    \/ /\ \/ \E srcs \in SourceLists, q \in QueryChoices : ExecuteQuery(srcs, q)
          \/ \E i \in 1..Len(futures) : WorkerRun(i)
          \/ \E i \in 1..Len(futures) : Collect(i)
          \/ RaiseAfterShutdown
          \/ ExecuteFinalQuery
          \/ Repeat
       /\ UNCHANGED <<identVars, regVars, cacheVars, mgrVars, dsVars>>

Spec == Init /\ [][Next]_vars

TableNames == {TableName(sources[i]) : i \in 1..Len(sources)}

Failed(i) == futures[i].state = "done" /\ futures[i].result.kind = "err"

Succeeded(i) == futures[i].state = "done" /\ futures[i].result.kind = "ok"

\* C1: a multi-source call in which a fetch failed ends by raising the error of
\* a failing source; the final query was never run and no records come back.
C1_FailFast ==
    (phase = "done" /\ Len(sources) >= 2 /\ \E i \in 1..Len(futures) : Failed(i)) =>
        /\ outcome.kind = "err"
        /\ \E i \in 1..Len(futures) : Failed(i) /\ outcome = futures[i].result
        /\ outcome.records = <<>>
        /\ executed = <<>>
        /\ registered = <<>>

\* a call ended by raising after another source had been fetched and taken
C1_Witness ==
    /\ phase = "done"
    /\ Len(sources) >= 2
    /\ outcome.kind = "err"
    /\ Len(collected) >= 2
    /\ Succeeded(collected[1])
    /\ Failed(collected[Len(collected)])

\* C2 as claimed: a repeated multi-source call registers the same relations and
\* returns the same result, whatever the order in which the workers finished.
C2_OrderIndependent ==
    (phase = "done" /\ prev # <<>> /\ executed # <<>>) =>
        /\ registered = prev[1].registered
        /\ outcome = prev[1].outcome

\* C5: a one-source call returns what query_product returns for the same
\* identifier, query, port, server key and model key, and starts no fan-out.
C5_SingleSource ==
    (phase = "done" /\ Len(sources) = 1) =>
        /\ calls = [single |-> 1, parallel |-> 0]
        /\ futures = <<>> /\ executed = <<>> /\ fetched = {}
        /\ LET identifier == FromString(sources[1].product_id)
           IN  (identifier.kind = "ok" /\ is_product(identifier)) =>
                   outcome = QueryProduct(identifier, call_query, sources[1].port_id,
                                          sources[1].server, sources[1].model)

\* a one-source call answered a query other than the fixed fetch text with rows
C5_Witness ==
    /\ phase = "done"
    /\ Len(sources) = 1
    /\ call_query # SelectAll
    /\ outcome.kind = "ok"
    /\ \E t \in DOMAIN outcome.records : outcome.records[t] # <<>>

\* C6: a call with more than one source runs the parallel fetch once, never the
\* single-source path, and runs the caller's query text once, only when every
\* fetch has succeeded, against relations named by the sources' table names.
C6_FanOutThenFinal ==
    Len(sources) > 1 =>
        /\ calls = [single |-> 0, parallel |-> 1]
        /\ Len(futures) = Len(sources)
        /\ Len(executed) <= 1
        /\ executed # <<>> =>
              /\ executed = <<call_query.text>>
              /\ \A i \in 1..Len(futures) : Succeeded(i)
              /\ DOMAIN registered \subseteq TableNames
              /\ outcome = ExecSQL(call_query, registered)
        /\ (phase = "done" /\ \A i \in 1..Len(futures) : Succeeded(i)) => Len(executed) = 1

\* the final query of a multi-source call has run and returned rows
C6_Witness ==
    /\ phase = "done"
    /\ Len(sources) > 1
    /\ executed = <<call_query.text>>
    /\ call_query # SelectAll
    /\ outcome.kind = "ok"

\* C7 as claimed: once the final query has run, every source of the call has a
\* relation registered under its table name, also a source without rows.
C7_EmptyRegistered ==
    (phase = "done" /\ executed # <<>>) => DOMAIN registered = TableNames

\* C8 as claimed: different sources of one call have different table names, and
\* the relation kept under a source's table name holds that source's rows.
C8_DistinctNames ==
    (phase = "done" /\ executed # <<>>) =>
        /\ \A i, j \in 1..Len(sources) :
              sources[i] # sources[j] => TableName(sources[i]) # TableName(sources[j])
        /\ \A i \in 1..Len(sources) :
              source_results[TableName(sources[i])] = futures[i].result.records[W_source_data]

(***************************************************************************)
(* Asset source registry.  AssetSourcePlugin._registry is a dict from      *)
(* source name to plugin class (kept here in insertion order),             *)
(* AssetSourceRegistry._instances a dict from source name to the cached    *)
(* plugin instance.                                                        *)
(***************************************************************************)
\* the built-in plugin classes and two classes a program registers at run time
PluginClasses ==
    {"LocalAssetSource", "DataMeshManagerSource", "MockLocalSource", "CustomSource"}

\* the source_name property of a plugin class
source_name(cls) ==
    CASE cls \in {"LocalAssetSource", "MockLocalSource"} -> W_local
      [] cls = "DataMeshManagerSource" -> W_datameshmanager
      [] OTHER -> W_custom

\* environment settings; DATAMESH_MANAGER_CACHE_TTL stands for a value int() rejects
EnvSettings == {"DATAASSET_SOURCE", "DATAMESH_MANAGER_API_KEY", "DATAMESH_MANAGER_CACHE_TTL"}

\* the environments the registry is started in
EnvChoices ==
    { {}, {"DATAASSET_SOURCE"}, {"DATAASSET_SOURCE", "DATAMESH_MANAGER_API_KEY"},
      {"DATAMESH_MANAGER_API_KEY", "DATAMESH_MANAGER_CACHE_TTL"} }

\* the plugin classes whose backend fails during one listing
BadChoices == {{}} \cup {{c} : c \in PluginClasses} \cup {PluginClasses}

ASSET_SOURCE_ENV_VARS ==
    << [name |-> W_local, var |-> "DATAASSET_SOURCE"],
       [name |-> W_datameshmanager, var |-> "DATAMESH_MANAGER_API_KEY"] >>

get_enabled_sources ==
    LET is_source_enabled(r) == r.var \in env
        on == SelectSeq(ASSET_SOURCE_ENV_VARS, is_source_enabled)
    IN  [i \in 1..Len(on) |-> on[i].name]

RegState ==
    [registry |-> plugin_registry, instances |-> instances,
     discovered |-> plugins_discovered]

\* position of the name among the keys of _registry, 0 when it is not a key
RegIndex(registry, name) ==
    IF \E i \in 1..Len(registry) : registry[i].name = name
    THEN CHOOSE i \in 1..Len(registry) : registry[i].name = name
    ELSE 0

get_plugin_class(registry, name) ==
    IF RegIndex(registry, name) = 0 THEN "None"
    ELSE registry[RegIndex(registry, name)].cls

get_registered_sources(registry) == [i \in 1..Len(registry) |-> registry[i].name]

\* AssetSourcePlugin.register, the class decorator
register(st, cls) ==
    LET name == source_name(cls)
    IN  IF RegIndex(st.registry, name) = 0
        THEN [st EXCEPT !.registry = Append(@, [name |-> name, cls |-> cls])]
        ELSE st

\* AssetSourceRegistry.register_source
register_source(st, name, cls) ==
    LET i == RegIndex(st.registry, name)
    IN  IF i # 0 /\ st.registry[i].cls = cls THEN st
        ELSE [st EXCEPT
                !.registry = IF i = 0 THEN Append(@, [name |-> name, cls |-> cls])
                             ELSE [@ EXCEPT ![i].cls = cls],
                !.instances[name] = NoInstance]

\* AssetSourceRegistry.discover_plugins: importing the plugins package applies
\* the decorator to the two built-in classes
discover_plugins(st) ==
    IF st.discovered THEN st
    ELSE [register(register(st, "LocalAssetSource"), "DataMeshManagerSource")
            EXCEPT !.discovered = TRUE]

\* plugin_class() raises: DataMeshManagerSource.__init__ converts the TTL setting
InitRaises(cls) ==
    cls = "DataMeshManagerSource" /\ "DATAMESH_MANAGER_CACHE_TTL" \in env

\* AssetSourceRegistry.get_source
get_source(st, name) ==
    IF st.instances[name] # NoInstance
    THEN [st |-> st, value |-> st.instances[name]]
    ELSE LET s2  == discover_plugins(st)
             cls == get_plugin_class(s2.registry, name)
         IN  IF cls = "None" \/ InitRaises(cls) THEN [st |-> s2, value |-> NoInstance]
             ELSE [st |-> [s2 EXCEPT !.instances[name] = [cls |-> cls]],
                   value |-> [cls |-> cls]]

\* is_available of a plugin instance
is_available(inst) ==
    CASE inst.cls = "LocalAssetSource" -> "DATAASSET_SOURCE" \in env
      [] inst.cls = "DataMeshManagerSource" -> "DATAMESH_MANAGER_API_KEY" \in env
      [] OTHER -> TRUE

\* the loops of get_available_sources: the names whose get_source gives an
\* instance (and, in the fallback loop, whose instance is available)
RECURSIVE CollectSources(_, _, _)
CollectSources(st, names, check) ==
    IF names = <<>> THEN [st |-> st, value |-> <<>>]
    ELSE LET g    == get_source(st, Head(names))
             rest == CollectSources(g.st, Tail(names), check)
             keep == g.value # NoInstance /\ (check => is_available(g.value))
         IN  [st |-> rest.st,
              value |-> IF keep THEN <<Head(names)>> \o rest.value ELSE rest.value]

\* AssetSourceRegistry.get_available_sources
get_available_sources(st) ==
    LET on == CollectSources(st, get_enabled_sources, FALSE)
    IN  IF on.value # <<>> THEN on
        ELSE LET s2 == discover_plugins(on.st)
             IN  CollectSources(s2, get_registered_sources(s2.registry), TRUE)

\* list_assets of a plugin instance; bad holds the classes whose backend fails
\* in this call (os.listdir raises, the API call raises, the plugin raises)
InstanceListing(inst, asset_type, bad) ==
    CASE inst.cls = "LocalAssetSource" ->
            IF ~is_available(inst) THEN [kind |-> "ok", value |-> <<>>]
            ELSE IF inst.cls \in bad THEN [kind |-> "raise", value |-> <<>>]
            ELSE [kind |-> "ok", value |-> ListLocalAssets(asset_type)]
      [] inst.cls = "DataMeshManagerSource" ->
            IF ~is_available(inst) \/ inst.cls \in bad
            THEN [kind |-> "ok", value |-> <<>>]
            ELSE [kind |-> "ok",
                  value |-> <<NewIdentifier("DataMeshManagerAssetIdentifier",
                                            asset_type, <<"m">>)>>]
      [] OTHER ->
            IF inst.cls \in bad THEN [kind |-> "raise", value |-> <<>>]
            ELSE [kind |-> "ok",
                  value |-> <<NewIdentifier(inst.cls, asset_type, <<"x">>)>>]

\* a variant of the loop without the try/except around source.list_assets
RECURSIVE ListFrom_propagate(_, _, _, _)
ListFrom_propagate(st, names, asset_type, bad) ==
    IF names = <<>> THEN [kind |-> "ok", value |-> <<>>]
    ELSE LET source == get_source(st, Head(names)).value
             mine   == InstanceListing(source, asset_type, bad)
             rest   == ListFrom_propagate(st, Tail(names), asset_type, bad)
         IN  IF source = NoInstance THEN rest
             ELSE IF mine.kind = "raise" \/ rest.kind = "raise"
                  THEN [kind |-> "raise", value |-> <<>>]
             ELSE [kind |-> "ok", value |-> mine.value \o rest.value]

\* the loop of AssetSourceRegistry.list_assets over the available sources
RECURSIVE ListFrom(_, _, _, _)
ListFrom(st, names, asset_type, bad) ==
    IF names = <<>> THEN [kind |-> "ok", value |-> <<>>]
    ELSE LET source == get_source(st, Head(names)).value
             mine   == InstanceListing(source, asset_type, bad)
             rest   == ListFrom(st, Tail(names), asset_type, bad)
         IN  IF source = NoInstance \/ mine.kind = "raise" THEN rest
             ELSE [kind |-> rest.kind, value |-> mine.value \o rest.value]

\* get_identifier of a plugin instance
get_identifier(inst, asset_type, asset_id) ==
    CASE inst.cls = "LocalAssetSource" ->
            NewIdentifier("LocalAssetIdentifier", asset_type, asset_id)
      [] inst.cls = "DataMeshManagerSource" ->
            NewIdentifier("DataMeshManagerAssetIdentifier", asset_type, asset_id)
      [] OTHER -> NewIdentifier(inst.cls, asset_type, asset_id)

\* AssetSourceRegistry.get_identifier_from_string: kind is "ok" with the
\* identifier in value, "none" when None is returned, "ValueError" when raised
get_identifier_from_string(st, s) ==
    LET none == [st |-> st, kind |-> "none", value |-> <<>>]
    IN  IF ~Contains(s, Colon) THEN none
        ELSE LET name == SplitFirst(s, Colon)[1]
                 rest == SplitFirst(s, Colon)[2]
             IN  IF ~Contains(rest, Slash) THEN none
                 ELSE LET asset_type == SplitFirst(rest, Slash)[1]
                          asset_id   == SplitFirst(rest, Slash)[2]
                      IN  IF name = <<>> \/ asset_type = <<>> \/ asset_id = <<>> THEN none
                          ELSE IF asset_type \notin {W_contract, W_product} THEN none
                          ELSE IF name \notin SourceNames THEN none
                          ELSE LET g == get_source(st, name)
                               IN  IF g.value = NoInstance
                                   THEN [none EXCEPT !.st = g.st]
                                   ELSE [st |-> g.st, kind |-> "ok",
                                         value |-> <<get_identifier(g.value, asset_type,
                                                                    asset_id)>>]

\* the texts handed to get_identifier_from_string
ResolveInputs ==
    { W_local \o <<Colon>> \o W_product \o <<Slash, "a">>,
      W_datameshmanager \o <<Colon>> \o W_contract \o <<Slash, "m">>,
      W_local \o W_product \o <<Slash, "a">>,
      W_local \o <<Colon>> \o W_product,
      W_local \o <<Colon>> \o <<"t","a","b","l","e">> \o <<Slash, "a">>,
      <<"s","3">> \o <<Colon>> \o W_product \o <<Slash, "a">>,
      <<Colon>> \o W_product \o <<Slash, "a">> }

RegCommit(st) ==
    /\ plugin_registry' = st.registry
    /\ instances' = st.instances
    /\ plugins_discovered' = st.discovered

\* @AssetSourcePlugin.register applied to a class
Register(cls) ==
    /\ RegCommit(register(RegState, cls))
    /\ regResult' = [NoRegResult EXCEPT !.op = "register", !.name = source_name(cls),
                                        !.cls = cls]
    /\ UNCHANGED <<env, identVars, fedVars, cacheVars, mgrVars, dsVars>>

\* AssetSourceRegistry.register_source(source_name, plugin_class)
RegisterSource(cls) ==
    /\ RegCommit(register_source(RegState, source_name(cls), cls))
    /\ regResult' = [NoRegResult EXCEPT !.op = "register_source",
                                        !.name = source_name(cls), !.cls = cls]
    /\ UNCHANGED <<env, identVars, fedVars, cacheVars, mgrVars, dsVars>>

\* AssetSourceRegistry.get_source(source_name)
GetSource(name) ==
    LET g == get_source(RegState, name)
    IN  /\ RegCommit(g.st)
        /\ regResult' = [NoRegResult EXCEPT !.op = "get_source", !.name = name,
                                            !.value = g.value]
        /\ UNCHANGED <<env, identVars, fedVars, cacheVars, mgrVars, dsVars>>

\* AssetSourceRegistry.list_assets(asset_type)
ListAssets(asset_type, bad) ==
    LET av == get_available_sources(RegState)
        r  == ListFrom(av.st, av.value, asset_type, bad)
    IN  /\ RegCommit(av.st)
        /\ regResult' = [NoRegResult EXCEPT !.op = "list_assets",
                                            !.asset_type = asset_type, !.bad = bad,
                                            !.queried = av.value, !.kind = r.kind,
                                            !.assets = r.value]
        /\ UNCHANGED <<env, identVars, fedVars, cacheVars, mgrVars, dsVars>>

\* AssetSourceRegistry.get_identifier_from_string(identifier_str)
Resolve(s) ==
    LET r == get_identifier_from_string(RegState, s)
    IN  /\ RegCommit(r.st)
        /\ regResult' = [NoRegResult EXCEPT !.op = "resolve", !.name = s,
                                            !.kind = r.kind, !.assets = r.value]
        /\ UNCHANGED <<env, identVars, fedVars, cacheVars, mgrVars, dsVars>>

RegInit ==
    /\ plugin_registry = <<>>
    /\ instances = [n \in SourceNames |-> NoInstance]
    /\ plugins_discovered = FALSE
    /\ env \in EnvChoices
    /\ regResult = NoRegResult
    /\ IdentIdle /\ FedIdle /\ CacheIdle /\ MgrIdle /\ DsIdle

RegNext ==
    \/ \E cls \in PluginClasses : Register(cls)
    \/ \E cls \in PluginClasses : RegisterSource(cls)
    \/ \E name \in SourceNames : GetSource(name)
    \/ \E asset_type \in {W_product, W_contract}, bad \in BadChoices :
          ListAssets(asset_type, bad)
    \/ \E s \in ResolveInputs : Resolve(s)

SpecReg == RegInit /\ [][RegNext]_vars

\* C3: once a different implementation has been registered under a bound name,
\* by register_source or by the register decorator, the name has exactly one
\* binding, the class just registered, and no instance of another class stays
\* cached; and get_source of a name returns an instance of the class bound to
\* it, so every later get_source returns an instance of the new class.
C3_Reregistration ==
    LET n == regResult.name
    IN  /\ regResult.op \in {"register", "register_source"} =>
              /\ Cardinality({i \in 1..Len(plugin_registry) :
                                  plugin_registry[i].name = n}) = 1
              /\ get_plugin_class(plugin_registry, n) = regResult.cls
              /\ instances[n] # NoInstance => instances[n].cls = regResult.cls
        /\ (regResult.op = "get_source" /\ regResult.value # NoInstance) =>
              regResult.value.cls = get_plugin_class(plugin_registry, n)

\* the listing source.list_assets gives for a queried source in the last call
ListingOf(n) == InstanceListing(instances[n], regResult.asset_type, regResult.bad)

MaxTime == 4

MaxCalls == 3

MaxRev == 2

\* self._cache_ttl, in ticks of the clock
cache_ttl == 2

IsProductKey(key) == key = "datameshmanager:product/m"

\* the loops that add the source prefix to the dataContractId fields of a product
AddPrefix(key, doc) == IF IsProductKey(key) THEN [doc EXCEPT !.prefixed = TRUE] ELSE doc

\* DataMeshManagerSource._get_from_cache at time t
get_from_cache(key, t) ==
    IF cache[key] = NoDoc THEN NoDoc
    ELSE IF cache_expiry[key] = NoExpiry \/ cache_expiry[key] < t THEN NoDoc
    ELSE cache[key]

\* DataMeshManagerSource._update_cache at time t
update_cache(key, data, t) ==
    /\ cache' = [cache EXCEPT ![key] = data]
    /\ cache_expiry' = [cache_expiry EXCEPT ![key] = t + cache_ttl]

\* time.time() advances
Tick ==
    /\ now < MaxTime
    /\ now' = now + 1
    /\ UNCHANGED <<cache, cache_expiry, remote, api_calls, loadResult>>
    /\ UNCHANGED <<identVars, fedVars, regVars, mgrVars, dsVars>>

\* the document is changed at the remote service
RemoteUpdate(key) ==
    /\ remote[key] < MaxRev
    /\ remote' = [remote EXCEPT ![key] = @ + 1]
    /\ UNCHANGED <<now, cache, cache_expiry, api_calls, loadResult>>
    /\ UNCHANGED <<identVars, fedVars, regVars, mgrVars, dsVars>>

\* DataMeshManagerSource.load_asset_content(identifier); fails: the API call raises
LoadAssetContent(key, fails) ==
    LET cached_data == get_from_cache(key, now)
        seen == [NoLoadResult EXCEPT !.op = "load", !.key = key, !.at = now,
                                     !.had = (cache[key] # NoDoc),
                                     !.expiresAt = cache_expiry[key],
                                     !.calls_before = api_calls,
                                     !.remote_rev = remote[key]]
    IN  /\ IF cached_data # NoDoc
           THEN /\ ~fails
                /\ IF AddPrefix(key, cached_data) # cached_data
                   THEN update_cache(key, AddPrefix(key, cached_data), now)
                   ELSE UNCHANGED <<cache, cache_expiry>>
                /\ UNCHANGED api_calls
                /\ loadResult' = [seen EXCEPT !.hit = TRUE,
                                              !.value = AddPrefix(key, cached_data)]
           ELSE /\ api_calls < MaxCalls
                /\ api_calls' = api_calls + 1
                /\ IF fails
                   THEN /\ UNCHANGED <<cache, cache_expiry>>
                        /\ loadResult' = [seen EXCEPT !.kind = "AssetLoadError"]
                   ELSE LET data == AddPrefix(key, [rev |-> remote[key], prefixed |-> FALSE])
                        IN  /\ update_cache(key, data, now)
                            /\ loadResult' = [seen EXCEPT !.value = data]
        /\ UNCHANGED <<now, remote>>
        /\ UNCHANGED <<identVars, fedVars, regVars, mgrVars, dsVars>>

\* DataMeshManagerSource.list_assets(asset_type): every listed item is cached as
\* the API sent it; fails: the API call raises and the listing is empty
DmmListAssets(key, fails) ==
    /\ api_calls < MaxCalls
    /\ api_calls' = api_calls + 1
    /\ IF fails THEN UNCHANGED <<cache, cache_expiry>>
       ELSE update_cache(key, [rev |-> remote[key], prefixed |-> FALSE], now)
    /\ loadResult' = [NoLoadResult EXCEPT !.op = "list", !.key = key, !.at = now,
                                          !.calls_before = api_calls]
    /\ UNCHANGED <<now, remote>>
    /\ UNCHANGED <<identVars, fedVars, regVars, mgrVars, dsVars>>

CacheInit == CacheIdle /\ IdentIdle /\ FedIdle /\ RegIdle /\ MgrIdle /\ DsIdle

CacheNext ==
    \/ Tick
    \/ \E key \in CacheKeys : RemoteUpdate(key)
    \/ \E key \in CacheKeys, fails \in BOOLEAN : LoadAssetContent(key, fails)
    \/ \E key \in CacheKeys, fails \in BOOLEAN : DmmListAssets(key, fails)

SpecCache == CacheInit /\ [][CacheNext]_vars

\* C4: a load returns the cached entry only while now < expiresAt: a load of a
\* cached key within the TTL is served from the cache without a call to the
\* remote service, and a load at or after expiresAt is not served from the
\* cache, calls the remote service once more and returns the current document.
C4_StrictExpiry ==
    (loadResult.op = "load" /\ loadResult.had) =>
        /\ loadResult.hit => loadResult.at < loadResult.expiresAt
        /\ loadResult.at < loadResult.expiresAt =>
              loadResult.hit /\ api_calls = loadResult.calls_before
        /\ loadResult.at >= loadResult.expiresAt =>
              /\ ~loadResult.hit
              /\ api_calls = loadResult.calls_before + 1
              /\ loadResult.kind = "ok" => loadResult.value.rev = loadResult.remote_rev

\* C12: get_identifier_from_string of a malformed text, of a text with an
\* unknown type token or of a text naming an unknown source raises a parse
\* error (ValueError); it never returns None or a default identifier.
C12_ResolveRaises ==
    regResult.op = "resolve" =>
        /\ regResult.kind # "none"
        /\ (\/ MalformedIdentText(regResult.name)
            \/ get_plugin_class(plugin_registry,
                                SplitFirst(regResult.name, Colon)[1]) = "None")
              => regResult.kind = "ValueError" /\ regResult.assets = <<>>

(***************************************************************************)
(* Calls of the resolution manager: query_product and get_contract_by_id   *)
(***************************************************************************)
\* DataAssetManager.get_contract_by_id over get_asset_content
GetContractById(identifier) ==
    LET rest == SplitFirst(identifier, Colon)[2]
        type_part == IF Contains(rest, Slash) THEN SplitFirst(rest, Slash)[1] ELSE rest
        parsed == FromString(identifier)
        found == FindContractById(identifier)
    IN  IF Contains(identifier, Colon) /\ Contains(identifier, Slash)
           /\ type_part = W_contract
        THEN IF parsed.kind # "ok" THEN Err("ValueError", parsed.msg, identifier)
             ELSE IF ~is_contract(parsed)
             THEN Err("ValueError", "Identifier does not refer to a data contract", identifier)
             ELSE LoadAndParseAsset(parsed)
        ELSE IF found = <<>>
             THEN Err("ValueError", "Could not find data contract with ID", identifier)
             ELSE LoadAndParseAsset(found[1])

\* the contract references a caller sends: canonical texts, file names, ids
ContractRefs ==
    LET docs == {i \in 1..Len(AssetFiles) : AssetFiles[i].asset_type = W_contract}
    IN  {ToStr(NewIdentifier("LocalAssetIdentifier", W_contract, AssetFiles[i].file)) : i \in docs}
        \cup {AssetFiles[i].file : i \in docs}
        \cup {AssetFiles[i].id : i \in docs}
        \cup { W_local \o <<Colon>> \o W_contract \o <<Slash>> \o <<"c","1">>,
               W_local \o <<Colon>> \o W_contract, <<"z">> }

\* a call of query_product on a local product
CallQueryProduct(file, port_id, model_key, q) ==
    /\ mgrCall' = [op |-> "query_product", text |-> LocalProduct(file),
                   port_id |-> port_id, model_key |-> model_key, query |-> q.text]
    /\ mgrResult' = QueryProduct(FromString(LocalProduct(file)), q, port_id, <<>>, model_key)
    /\ UNCHANGED <<identVars, fedVars, regVars, cacheVars, dsVars>>

\* a call of get_contract_by_id
CallGetContractById(identifier) ==
    /\ mgrCall' = [op |-> "get_contract_by_id", text |-> identifier,
                   port_id |-> <<>>, model_key |-> <<>>, query |-> ""]
    /\ mgrResult' = GetContractById(identifier)
    /\ UNCHANGED <<identVars, fedVars, regVars, cacheVars, dsVars>>

\* the contract documents handed to _query_from_data_contract: a contract of the
\* assets directory, one with two servers, one without servers, one without models
ContractChoices ==
    LET Variants(doc) ==
            { doc,
              [doc EXCEPT !.servers =
                  << [key |-> <<"s","0">>, type |-> W_local, path |-> <<"d","2">>,
                      location |-> <<>>] >> \o @],
              [doc EXCEPT !.servers = <<>>],
              [doc EXCEPT !.models = <<>>] }
    IN  Variants(AssetFiles[5])

\* the product documents handed to _get_output_port: two products of the assets
\* directory and one without output ports
ProductChoices ==
    LET Variants(docs) == { docs[1], docs[4], [docs[1] EXCEPT !.outputPorts = <<>>] }
    IN  Variants(AssetFiles)

\* a call of _query_from_data_contract
CallQueryFromDataContract(contract, q, server_key, model_key) ==
    /\ mgrCall' = [op |-> "query_from_data_contract", text |-> contract.id,
                   port_id |-> <<>>, model_key |-> model_key, query |-> q.text,
                   server_key |-> server_key, contract |-> contract, sql |-> q]
    /\ mgrResult' = QueryFromDataContract(contract, q, server_key, model_key)
    /\ UNCHANGED <<identVars, fedVars, regVars, cacheVars, dsVars>>

\* a call of _get_output_port
CallGetOutputPort(product, port_id) ==
    /\ mgrCall' = [op |-> "get_output_port", text |-> product.id, port_id |-> port_id,
                   model_key |-> <<>>, query |-> "", product |-> product]
    /\ mgrResult' = GetOutputPort(product, port_id)
    /\ UNCHANGED <<identVars, fedVars, regVars, cacheVars, dsVars>>

MgrInit == MgrIdle /\ IdentIdle /\ FedIdle /\ RegIdle /\ CacheIdle /\ DsIdle

MgrNext ==
    \/ \E file \in { <<"a">>, <<"a","_","b">>, <<"e">>, <<"g">>, <<"x">> },
          port_id \in { <<>>, <<"b">>, W_source_data, <<"q">>, <<"p">>, <<"n">>,
                        <<"r">>, <<"u">>, <<"z">> },
          model_key \in {<<>>, W_orders}, q \in QueryChoices :
            CallQueryProduct(file, port_id, model_key, q)
    \/ \E identifier \in ContractRefs : CallGetContractById(identifier)
    \/ \E contract \in ContractChoices, q \in QueryChoices,
          server_key \in { <<>>, <<"s","1">>, <<"s","9">> },
          model_key \in { <<>>, W_orders, <<"z">> } :
            CallQueryFromDataContract(contract, q, server_key, model_key)
    \/ \E product \in ProductChoices,
          port_id \in { <<>>, <<"b">>, W_source_data, <<"u">>, <<"z">> } :
            CallGetOutputPort(product, port_id)

SpecQuery == MgrInit /\ [][MgrNext]_vars

\* the port a query_product call selected, when the product and the port exist
CalledPort ==
    LET loaded == LoadAndParseAsset(FromString(mgrCall.text))
        got == GetOutputPort(loaded.records, mgrCall.port_id)
    IN  IF mgrCall.op = "query_product" /\ loaded.kind = "ok" /\ got.kind = "ok"
        THEN got.records
        ELSE Port(<<>>, <<"-">>, NoServer)

\* C13: query_product on a port that has neither a dataContractId nor server
\* information raises AssetQueryError whose message names the port id; no
\* data source plugin is invoked and no other exception kind escapes.
C13_NoReferenceNoServer ==
    (/\ CalledPort.dataContractId = <<>>
     /\ CalledPort.server = NoServer
     /\ CalledPort.type = <<>> /\ CalledPort.location = <<>>)
        => /\ mgrResult.kind = "err"
           /\ mgrResult.cls = "AssetQueryError"
           /\ mgrResult.msg = "has neither a data contract reference nor server information"
           /\ mgrResult.subject = CalledPort.id
           /\ mgrResult.via = ""

C13_Witness ==
    /\ mgrCall.op = "query_product"
    /\ mgrCall.port_id = <<"n">>
    /\ CalledPort.id = <<"n">>
    /\ CalledPort.dataContractId = <<>> /\ CalledPort.server = NoServer
    /\ mgrResult.cls = "AssetQueryError"
    /\ mgrResult.subject = <<"n">>

\* C14: get_contract_by_id returns the same content for a listed contract
\* whether it is referenced by its canonical identifier text or by that same
\* contract's bare id.
C14_SameContent ==
    \A i \in 1..Len(ListLocalAssets(W_contract)) :
        LET ident == ListLocalAssets(W_contract)[i]
            doc == LoadAndParseAsset(ident).records
        IN  (mgrCall.op = "get_contract_by_id" /\ mgrCall.text = doc.id)
                => mgrResult = GetContractById(ToStr(ident))

(***************************************************************************)
(* Data source registry: DataSourcePlugin._registry and DataSourceRegistry *)
(***************************************************************************)
MaxCreated == 3

\* the registrations the import of the data_plugins package performs, in the
\* order the decorators run
BuiltinDataPlugins ==
    << [type |-> "file", cls |-> "LocalDataSource"],
       [type |-> "local", cls |-> "LocalDataSource"],
       [type |-> "s3", cls |-> "S3DataSource"] >>

\* DataSourcePlugin._registry.get(server_type)
DsClassOf(reg, server_type) ==
    IF \E i \in 1..Len(reg) : reg[i].type = server_type
    THEN reg[CHOOSE i \in 1..Len(reg) : reg[i].type = server_type].cls
    ELSE "None"

\* the state of the two class-level dictionaries and the discovery flag
DsState == [reg |-> ds_registry, inst |-> ds_instances, disc |-> ds_discovered,
            created |-> ds_created]

\* DataSourceRegistry.discover_plugins: the import runs the register
\* decorators, and the first binding of a type stays
DsDiscoverPlugins(st) ==
    LET Reg[k \in 0..Len(BuiltinDataPlugins)] ==
            IF k = 0 THEN st.reg
            ELSE IF DsClassOf(Reg[k-1], BuiltinDataPlugins[k].type) = "None"
                 THEN Append(Reg[k-1], BuiltinDataPlugins[k])
                 ELSE Reg[k-1]
        reg == Reg[Len(BuiltinDataPlugins)]
    IN  IF st.disc THEN st
        ELSE [st EXCEPT !.reg = reg, !.disc = (reg # <<>>)]

\* the FILE special case of get_plugin_class and get_source
DsAlias(reg, server_type) ==
    IF server_type = "file" /\ DsClassOf(reg, "file") = "None"
       /\ DsClassOf(reg, "local") # "None"
    THEN "local" ELSE server_type

\* a variant of get_source that ignores the cached instance
DsGetSource_fresh(st, server_type) ==
    LET t == DsAlias(st.reg, server_type)
        d == DsDiscoverPlugins(st)
        cls == DsClassOf(d.reg, DsAlias(d.reg, t))
        instance == [cls |-> cls, id |-> d.created + 1]
    IN  IF cls = "None" THEN [st |-> d, ret |-> NoDsInstance]
        ELSE [st |-> [d EXCEPT !.inst[t] = instance, !.created = @ + 1],
              ret |-> instance]

\* DataSourceRegistry.get_source: the state it leaves and the instance it returns
DsGetSource(st, server_type) ==
    LET t == DsAlias(st.reg, server_type)
        d == DsDiscoverPlugins(st)
        cls == DsClassOf(d.reg, DsAlias(d.reg, t))
        instance == [cls |-> cls, id |-> d.created + 1]
    IN  IF st.inst[t] # NoDsInstance THEN [st |-> st, ret |-> st.inst[t]]
        ELSE IF cls = "None" THEN [st |-> d, ret |-> NoDsInstance]
        ELSE [st |-> [d EXCEPT !.inst[t] = instance, !.created = @ + 1],
              ret |-> instance]

\* is_available of LocalDataSource and S3DataSource: the duckdb module is importable
DsIsAvailable(instance) == instance # NoDsInstance /\ duckdb

\* DataSourceRegistry.get_available_sources
DsGetAvailableSources(st) ==
    LET d == DsDiscoverPlugins(st)
        Walk[k \in 0..Len(d.reg)] ==
            IF k = 0 THEN [st |-> d, ret |-> <<>>]
            ELSE LET got == DsGetSource(Walk[k-1].st, d.reg[k].type)
                 IN  [st |-> got.st,
                      ret |-> IF DsIsAvailable(got.ret)
                              THEN Append(Walk[k-1].ret, d.reg[k].type)
                              ELSE Walk[k-1].ret]
    IN  Walk[Len(d.reg)]

DsCommit(st) ==
    /\ ds_registry' = st.reg
    /\ ds_instances' = st.inst
    /\ ds_discovered' = st.disc
    /\ ds_created' = st.created
    /\ UNCHANGED <<duckdb, getters, duckdb_connections, last_used_time>>
    /\ UNCHANGED <<identVars, fedVars, regVars, cacheVars, mgrVars>>

\* a call of DataSourceRegistry.get_source
GetDataSource(server_type) ==
    LET got == DsGetSource(DsState, server_type)
    IN  /\ ds_created < MaxCreated
        /\ DsCommit(got.st)
        /\ dsResult' = [NoDsResult EXCEPT !.op = "get_source",
                           !.server_type = server_type, !.inst = got.ret,
                           !.kind = IF got.ret = NoDsInstance THEN "none" ELSE "ok"]

\* a call of DataSourceRegistry.register_source
RegisterDataSource(server_type, cls) ==
    LET bound == DsClassOf(ds_registry, server_type)
        idx == CHOOSE i \in 1..Len(ds_registry) : ds_registry[i].type = server_type
    IN  /\ ds_created < MaxCreated
        /\ IF bound = cls
           THEN DsCommit(DsState)
           ELSE DsCommit([DsState EXCEPT
                    !.reg = IF bound = "None"
                            THEN Append(ds_registry, [type |-> server_type, cls |-> cls])
                            ELSE [ds_registry EXCEPT ![idx].cls = cls],
                    !.inst[server_type] = NoDsInstance])
        /\ dsResult' = [NoDsResult EXCEPT !.op = "register_source",
                           !.server_type = server_type]

\* a call of DataSourceRegistry.get_available_sources
GetAvailableDataSources ==
    LET got == DsGetAvailableSources(DsState)
    IN  /\ ds_created < MaxCreated
        /\ DsCommit(got.st)
        /\ dsResult' = [NoDsResult EXCEPT !.op = "get_available_sources",
                           !.listed = got.ret, !.kind = "ok"]

\* a call of DataSourceRegistry.execute_query; fails tells whether the plugin's
\* execute raises on this query
DsExecuteQuery(server_type, fails) ==
    LET got == DsGetSource(DsState, server_type)
        avail == DsGetAvailableSources(got.st)
        d == DsDiscoverPlugins(DsState)
        rec == [NoDsResult EXCEPT !.op = "execute_query", !.server_type = server_type,
                   !.inst = got.ret,
                   !.was_registered = DsClassOf(d.reg, DsAlias(d.reg, server_type)) # "None",
                   !.was_available = DsIsAvailable(got.ret)]
    IN  /\ ds_created < MaxCreated
        /\ IF got.ret = NoDsInstance
           THEN /\ DsCommit(avail.st)
                /\ dsResult' = [rec EXCEPT !.kind = "AssetQueryError",
                                   !.msg = "Unsupported server type",
                                   !.named = server_type, !.listed = avail.ret]
           ELSE /\ DsCommit(got.st)
                /\ dsResult' =
                     IF fails \/ ~duckdb
                     THEN [rec EXCEPT !.kind = "AssetQueryError",
                              !.msg = "Error executing query on",
                              !.named = server_type, !.via = got.ret.cls]
                     ELSE [rec EXCEPT !.kind = "ok", !.via = got.ret.cls]

DsInit ==
    /\ ds_registry = <<>>
    /\ ds_instances = [t \in DsTypes |-> NoDsInstance]
    /\ ds_discovered = FALSE
    /\ ds_created = 0
    /\ duckdb \in BOOLEAN
    /\ dsResult = NoDsResult
    /\ getters = <<>>
    /\ duckdb_connections = {}
    /\ last_used_time = <<>>
    /\ IdentIdle /\ FedIdle /\ RegIdle /\ CacheIdle /\ MgrIdle

DsNext ==
    \/ \E t \in DsTypes : GetDataSource(t)
    \/ \E cls \in {"LocalDataSource", "S3DataSource"} :
            RegisterDataSource("bigquery", cls)
    \/ GetAvailableDataSources
    \/ \E t \in DsTypes, fails \in BOOLEAN : DsExecuteQuery(t, fails)

SpecData == DsInit /\ [][DsNext]_vars

\* C15: execute_query with a server type that is unregistered, or registered
\* with a plugin whose is_available() is false, raises a query error whose
\* message names the attempted type and the currently available types, and
\* never delegates to a plugin's execute.
C15_UnavailableRejected ==
    (dsResult.op = "execute_query"
        /\ (~dsResult.was_registered \/ ~dsResult.was_available))
        => /\ dsResult.kind = "AssetQueryError"
           /\ dsResult.msg = "Unsupported server type"
           /\ dsResult.named = dsResult.server_type
           /\ dsResult.listed = DsGetAvailableSources(DsState).ret
           /\ dsResult.via = ""

\* C16: 'file' is only a lookup-time alias of 'local': it is never a registry
\* binding of its own and never has a cached instance of its own, and after
\* plugin discovery get_source('file') and get_source('local') return the
\* same plugin instance.
C16_FileIsAlias ==
    /\ DsClassOf(ds_registry, "file") = "None"
    /\ ds_instances["file"] = NoDsInstance
    /\ ds_discovered =>
          DsGetSource(DsState, "file").ret
            = DsGetSource(DsGetSource(DsState, "file").st, "local").ret

\* C17: a federated request with an empty source list is rejected with an
\* error before any I/O: no identifier is resolved, no asset is loaded, no
\* worker is started and no data source plugin is invoked.
C17_EmptyRejected ==
    (phase # "idle" /\ sources = <<>>) =>
        /\ phase = "done"
        /\ outcome.kind = "err" /\ outcome.cls = "ValueError"
        /\ outcome.msg = "At least one source must be provided"
        /\ outcome.via = ""
        /\ calls = NoCalls
        /\ futures = <<>> /\ fetched = {}
        /\ executed = <<>> /\ registered = <<>> /\ source_results = <<>>

C17_Witness ==
    /\ phase = "done"
    /\ sources = <<>>
    /\ call_query \in QueryChoices
    /\ outcome.cls = "ValueError"
    /\ calls = NoCalls

\* C18: list_assets(type) queries exactly the registered asset sources whose
\* is_available() is true and concatenates their listings: every available
\* registered source, also one registered at runtime under a new name, is
\* queried, and its identifiers appear in the result.
C18_AllAvailableQueried ==
    regResult.op = "list_assets" =>
        \A n \in SourceNames :
            LET source == get_source(RegState, n).value
                usable == /\ get_plugin_class(plugin_registry, n) # "None"
                          /\ source # NoInstance
                          /\ is_available(source)
                mine == InstanceListing(source, regResult.asset_type, regResult.bad)
            IN  /\ usable <=> \E k \in 1..Len(regResult.queried) : regResult.queried[k] = n
                /\ (usable /\ mine.kind = "ok") =>
                      \A j \in 1..Len(mine.value) :
                          \E k \in 1..Len(regResult.assets) :
                              regResult.assets[k] = mine.value[j]

\* the query record of the last query_product call
CalledQuery ==
    IF \E q \in QueryChoices : q.text = mgrCall.query
    THEN CHOOSE q \in QueryChoices : q.text = mgrCall.query
    ELSE SelectAll

\* C19: when a port carries a dataContractId, contract lookup first searches
\* the contract listings for a contract whose id equals the dataContractId
\* literally and only then retries with prefix-stripped forms; when both a
\* contract with the literal id and one with the stripped id exist, the
\* literal match is the one used.
C19_LiteralFirst ==
    LET literal == FindAssetByTypeAndId(W_contract, CalledPort.dataContractId)
    IN  (CalledPort.id # <<>> /\ CalledPort.dataContractId # <<>> /\ literal # <<>>)
            => /\ FindContractById(CalledPort.dataContractId) = literal
               /\ mgrResult = QueryFromDataContract(literal[2], CalledQuery, <<>>,
                                                    mgrCall.model_key)

\* C20: query_product on a port without dataContractId and without a server
\* block that has both type and location dispatches a direct query with the
\* server config built from the location and the port id as default model key.
C20_TypeLocationDispatch ==
    (/\ CalledPort.id # <<>>
     /\ CalledPort.dataContractId = <<>>
     /\ CalledPort.server = NoServer
     /\ CalledPort.type # <<>> /\ CalledPort.location # <<>>)
        => /\ mgrResult = QueryFromDataProduct(CalledPort, CalledQuery,
                              FirstOr(mgrCall.model_key, <<CalledPort.id>>))
           /\ mgrResult.via = "LocalDataSource"

\* C21: plugin lookup by server type is case-insensitive at the registry:
\* get_source and execute_query called with a case variant of a registered
\* type resolve to the same plugin as the type itself and do not raise an
\* unsupported-type error.
C21_CaseInsensitive ==
    (dsResult.op \in {"get_source", "execute_query"} /\ dsResult.server_type = "LOCAL")
        => /\ dsResult.inst = DsGetSource(DsState, "local").ret
           /\ dsResult.msg # "Unsupported server type"

\* C22: every exception that escapes the federated engine's execute_query is
\* one of the taxonomy error kinds (parse, load, query or configuration
\* error); in particular an exception raised by the embedded SQL engine
\* during the final query does not cross the boundary unwrapped.
C22_TaxonomyOnly ==
    (phase = "done" /\ outcome.kind = "err" /\ executed # <<>>) =>
        outcome.cls \in {"AssetParseError", "AssetLoadError", "AssetQueryError",
                         "ConfigurationError"}

C24_FetchIsFullTable ==
    Len(sources) >= 2 =>
        /\ \A i \in 1..Len(futures) :
               futures[i].state = "done" =>
                   futures[i].result = QueryThroughManager(sources[i], SelectAll)
        /\ \A f \in fetched : f[2] = "SELECT * FROM source_data"
        /\ executed # <<>> =>
               /\ executed = <<call_query.text>>
               /\ Len(collected) = Len(sources)
               /\ \A i \in 1..Len(futures) : Succeeded(i) /\ <<i, SelectAll.text>> \in fetched

\* a multi-source call whose query is not the fetch text ran its final query
C24_Witness ==
    /\ Len(sources) >= 2
    /\ call_query.text # "SELECT * FROM source_data"
    /\ executed = <<call_query.text>>
    /\ \A i \in 1..Len(futures) : <<i, "SELECT * FROM source_data">> \in fetched

\* C25: contract-based querying uses the requested server key, or the first
\* declared server when none is requested, and the requested model key, or the
\* first declared model when none is requested; a requested key the contract
\* does not declare, and a contract without servers or without models, raise a
\* query error, with no data source plugin invoked and no records returned.
C25_ContractKeys ==
    mgrCall.op = "query_from_data_contract" =>
        LET servers == mgrCall.contract.servers
            models == mgrCall.contract.models
            skeys == {servers[i].key : i \in 1..Len(servers)}
            mkeys == {models[i] : i \in 1..Len(models)}
            skey == IF mgrCall.server_key # <<>> THEN mgrCall.server_key ELSE servers[1].key
            mkey == IF mgrCall.model_key # <<>> THEN mgrCall.model_key ELSE models[1]
        IN  IF \/ servers = <<>> \/ models = <<>>
               \/ (mgrCall.server_key # <<>> /\ mgrCall.server_key \notin skeys)
               \/ (mgrCall.model_key # <<>> /\ mgrCall.model_key \notin mkeys)
            THEN /\ mgrResult.kind = "err"
                 /\ mgrResult.cls = "AssetQueryError"
                 /\ mgrResult.via = ""
                 /\ mgrResult.records = <<>>
            ELSE \E i \in 1..Len(servers) :
                    /\ servers[i].key = skey
                    /\ mgrResult = DataSourceExecute(Lower(servers[i].type), mkey,
                                                     mgrCall.sql, servers[i])

\* a query naming a server that a contract with two servers does not declare
\* was rejected before any plugin ran
C25_Witness ==
    /\ mgrCall.op = "query_from_data_contract"
    /\ Len(mgrCall.contract.servers) = 2
    /\ mgrCall.server_key = <<"s","9">>
    /\ mgrResult.kind = "err"
    /\ mgrResult.via = ""

\* C26: port selection returns the port whose id equals the requested port id,
\* or the first declared port when no port id is requested; a product without
\* output ports raises a query error naming the product, and a requested id
\* that matches no declared port raises a query error instead of falling back
\* to the first port.
C26_PortSelection ==
    mgrCall.op = "get_output_port" =>
        LET ports == mgrCall.product.outputPorts
            hits == {i \in 1..Len(ports) : ports[i].id = mgrCall.port_id}
        IN  IF mgrCall.port_id = <<>>
            THEN IF ports = <<>>
                 THEN /\ mgrResult.kind = "err"
                      /\ mgrResult.cls = "AssetQueryError"
                      /\ mgrResult.subject = mgrCall.product.id
                 ELSE mgrResult = Ok(ports[1])
            ELSE IF hits = {}
                 THEN mgrResult.kind = "err" /\ mgrResult.cls = "AssetQueryError"
                 ELSE /\ mgrResult.kind = "ok"
                      /\ mgrResult.records.id = mgrCall.port_id
                      /\ \E i \in hits : mgrResult.records = ports[i]

\* a port id that a product with ports does not declare was rejected
C26_Witness ==
    /\ mgrCall.op = "get_output_port"
    /\ mgrCall.product.outputPorts # <<>>
    /\ mgrCall.port_id # <<>>
    /\ \A i \in 1..Len(mgrCall.product.outputPorts) :
           mgrCall.product.outputPorts[i].id # mgrCall.port_id
    /\ mgrResult.kind = "err"

\* C27 as claimed: in a multi-source call the fixed fetch query refers to the
\* table under which the data plugin holds the source's data, so the fetch of
\* a source succeeds whenever that source can be loaded at all, for every
\* model key.
C27_FetchNamesModelTable ==
    Len(sources) >= 2 =>
        \A i \in 1..Len(futures) :
            (/\ futures[i].state = "done"
             /\ QueryThroughManager(sources[i], [text |-> "SELECT 1", tables |-> {}]).kind = "ok")
                => futures[i].result.kind = "ok"

(***************************************************************************)
(* get_source called by the workers of one fan-out                         *)
(***************************************************************************)
\* a worker about to call DataSourceRegistry.get_source(name)
Getter(name) == [pc |-> "check", name |-> name, type |-> name, ret |-> NoDsInstance]

\* the alias step, the test of the instance map, discover_plugins and the class
\* lookup of get_source
GsCheck(w) ==
    LET t == DsAlias(ds_registry, getters[w].name)
        d == DsDiscoverPlugins(DsState)
    IN  /\ getters[w].pc = "check"
        /\ IF ds_instances[t] # NoDsInstance
           THEN /\ getters' = [getters EXCEPT ![w].pc = "done", ![w].type = t,
                                              ![w].ret = ds_instances[t]]
                /\ UNCHANGED <<ds_registry, ds_discovered>>
           ELSE /\ ds_registry' = d.reg
                /\ ds_discovered' = d.disc
                /\ getters' = [getters EXCEPT ![w].type = t,
                                 ![w].pc = IF DsClassOf(d.reg, DsAlias(d.reg, t)) = "None"
                                           THEN "done" ELSE "create"]
        /\ UNCHANGED <<ds_instances, ds_created, duckdb, dsResult, duckdb_connections,
                       last_used_time>>
        /\ UNCHANGED <<identVars, fedVars, regVars, cacheVars, mgrVars>>

\* instance = plugin_class() and its configuration
GsCreate(w) ==
    /\ getters[w].pc = "create"
    /\ ds_created' = ds_created + 1
    /\ getters' = [getters EXCEPT ![w].pc = "store",
                     ![w].ret = [cls |-> DsClassOf(ds_registry,
                                                   DsAlias(ds_registry, getters[w].type)),
                                 id |-> ds_created + 1]]
    /\ UNCHANGED <<ds_registry, ds_instances, ds_discovered, duckdb, dsResult,
                   duckdb_connections, last_used_time>>
    /\ UNCHANGED <<identVars, fedVars, regVars, cacheVars, mgrVars>>

\* cls._instances[server_type] = instance; return instance
GsStore(w) ==
    /\ getters[w].pc = "store"
    /\ ds_instances' = [ds_instances EXCEPT ![getters[w].type] = getters[w].ret]
    /\ getters' = [getters EXCEPT ![w].pc = "done"]
    /\ UNCHANGED <<ds_registry, ds_discovered, ds_created, duckdb, dsResult,
                   duckdb_connections, last_used_time>>
    /\ UNCHANGED <<identVars, fedVars, regVars, cacheVars, mgrVars>>

\* the workers of one fan-out, one per source, each with the server type of its
\* source
RaceInit ==
    /\ ds_registry = <<>>
    /\ ds_instances = [t \in DsTypes |-> NoDsInstance]
    /\ ds_discovered = FALSE
    /\ ds_created = 0
    /\ duckdb = TRUE
    /\ dsResult = NoDsResult
    /\ getters \in [1..MaxSources -> {Getter(n) : n \in DsTypes}]
    /\ duckdb_connections = {}
    /\ last_used_time = <<>>
    /\ IdentIdle /\ FedIdle /\ RegIdle /\ CacheIdle /\ MgrIdle

RaceNext ==
    \/ \E w \in 1..Len(getters) : GsCheck(w)
    \/ \E w \in 1..Len(getters) : GsCreate(w)
    \/ \E w \in 1..Len(getters) : GsStore(w)

SpecRace == RaceInit /\ [][RaceNext]_vars

\* C28 as claimed: when several workers call get_source for a name without a
\* cached instance, one instance is created for the name and every caller
\* receives it; the instance map never holds an instance different from one
\* already handed to a caller.
C28_OneInstancePerName ==
    \A w \in 1..Len(getters) :
        (getters[w].pc = "done" /\ getters[w].ret # NoDsInstance) =>
            /\ ds_instances[getters[w].type] = getters[w].ret
            /\ \A v \in 1..Len(getters) :
                   (getters[v].pc = "done" /\ getters[v].type = getters[w].type)
                       => getters[v].ret = getters[w].ret

(***************************************************************************)
(* The connection pool of the local data plugin                            *)
(***************************************************************************)
\* the values of id(conn) the model distinguishes
MaxConnIds == 4

\* self._max_connections as configured
max_connections == 2

\* self._idle_timeout as configured, in ticks of the clock
idle_timeout == 2

\* get_connection of get_duckdb_pool; conn_id is the id of the new connection
get_connection(conn_id) ==
    LET oldest_time == CHOOSE v \in {last_used_time[k] : k \in DOMAIN last_used_time} :
                           \A k \in DOMAIN last_used_time : v <= last_used_time[k]
        oldest_conn == CHOOSE k \in DOMAIN last_used_time : last_used_time[k] = oldest_time
        evict == /\ Cardinality(duckdb_connections) >= max_connections
                 /\ now - oldest_time > idle_timeout
        kept == IF evict THEN duckdb_connections \ {oldest_conn} ELSE duckdb_connections
    IN  /\ conn_id \notin kept
        /\ duckdb_connections' = kept \cup {conn_id}
        /\ last_used_time' = [k \in (DOMAIN last_used_time \cap kept) \cup {conn_id} |->
                                 IF k = conn_id THEN now ELSE last_used_time[k]]
        /\ UNCHANGED <<ds_registry, ds_instances, ds_discovered, ds_created, duckdb,
                       dsResult, getters>>
        /\ UNCHANGED <<identVars, fedVars, regVars, cacheVars, mgrVars>>

\* release_connection of get_duckdb_pool
release_connection(conn_id) ==
    /\ last_used_time' = IF conn_id \in duckdb_connections
                         THEN (conn_id :> now) @@ last_used_time
                         ELSE last_used_time
    /\ UNCHANGED <<ds_registry, ds_instances, ds_discovered, ds_created, duckdb,
                   dsResult, getters, duckdb_connections>>
    /\ UNCHANGED <<identVars, fedVars, regVars, cacheVars, mgrVars>>

\* cleanup of get_duckdb_pool
cleanup ==
    LET expired == {k \in DOMAIN last_used_time : now - last_used_time[k] > idle_timeout}
    IN  /\ duckdb_connections' = duckdb_connections \ expired
        /\ last_used_time' = [k \in DOMAIN last_used_time \ expired |-> last_used_time[k]]
        /\ UNCHANGED <<ds_registry, ds_instances, ds_discovered, ds_created, duckdb,
                       dsResult, getters>>
        /\ UNCHANGED <<identVars, fedVars, regVars, cacheVars, mgrVars>>

\* time.time() advances between two calls
PoolTick ==
    /\ now < MaxTime
    /\ now' = now + 1
    /\ UNCHANGED <<cache, cache_expiry, remote, api_calls, loadResult>>
    /\ UNCHANGED <<identVars, fedVars, regVars, mgrVars, dsVars>>

PoolInit == DsIdle /\ IdentIdle /\ FedIdle /\ RegIdle /\ CacheIdle /\ MgrIdle

PoolNext ==
    \/ \E conn_id \in 1..MaxConnIds : get_connection(conn_id)
    \/ \E conn_id \in 1..MaxConnIds : release_connection(conn_id)
    \/ cleanup
    \/ PoolTick

SpecPool == PoolInit /\ [][PoolNext]_vars

\* C29 as claimed: the pool never holds more than max_connections connections
\* and its two maps always have the same key set, after any sequence of
\* get_connection, release_connection and cleanup calls.
C29_PoolBounded ==
    /\ duckdb_connections = DOMAIN last_used_time
    /\ Cardinality(duckdb_connections) <= max_connections

\* C30: when the parallel fetch of a multi-source call returns or raises, every
\* worker submitted for the call has terminated, also after a first failure,
\* and no worker's result is added to the relation set once the call has
\* finished.
C30_WorkersJoined ==
    [][/\ (Len(sources') >= 2 /\ (phase' = "done" \/ executed' # <<>>)) =>
              \A i \in 1..Len(futures') : futures'[i].state = "done"
       /\ (phase = "done" /\ phase' = "done") =>
              /\ futures' = futures
              /\ source_results' = source_results
              /\ registered' = registered]_vars

\* a call that raised after a first failure, with a worker that finished
\* during the shutdown of the pool and was not taken by the loop
C30_Witness ==
    /\ phase = "done"
    /\ Len(sources) >= 2
    /\ outcome.kind = "err"
    /\ \E i \in 1..Len(futures) :
           /\ futures[i].state = "done"
           /\ ~\E k \in 1..Len(collected) : collected[k] = i
           /\ TableName(sources[i]) \notin DOMAIN source_results

====
